---- MODULE Spec2Model ----
(***************************************************************************)
(* Terminal registry of apps/terminal/models/terminal.py: the "terminal"   *)
(* table, its owning accounts, the protocol catalog, the many-to-many      *)
(* protocol membership rows and the expiring liveness keys of the cache.   *)
(* Every action is one store transaction of a handler; Terminal.delete     *)
(* issues two (user.delete(), then self.save()) and is two actions.        *)
(***************************************************************************)
EXTENDS Integers, Sequences, FiniteSets, TLC

\* ------------------------------------------------------------------ bounds
MaxTtl == 3      \* time-to-live values handed to set_alive: 0..MaxTtl
NumPlatforms == 2    \* platforms of the migrated store: 1..NumPlatforms
NumAssets == 4       \* assets of the migrated store: 1..NumAssets
BatchSize == 2       \* assets per batch of the asset backfill (1000 in the source)

\* ------------------------------------------------------------- value sets
TermIds == {"t1", "t2"}
None == "None"
UserFor(t) == IF t = "t1" THEN "u1" ELSE "u2"

\* const.TerminalTypeChoices / const.ProtocolName / terminal_type_protocols_mapper
TerminalTypeChoices == {"koko", "lion", "core"}
ProtocolName == {"ssh", "rdp"}
default_port(p) == IF p = "ssh" THEN 22 ELSE 3389
terminal_type_protocols_mapper ==
    [ttype \in {"koko", "lion"} |->
        IF ttype = "koko" THEN <<"ssh">> ELSE <<"rdp", "ssh">>]

VARIABLES
    terminals,      \* table "terminal": id -> row, for the ids that have a row
    termProtocols,  \* through table of Terminal.protocols: id -> set of protocol pks
    users,          \* accounts: id -> [is_active], for the accounts that exist
    protocols,      \* table of Protocol: set of [pk, name, port, builtin]
    nextPk,         \* the protocol table's primary-key sequence
    cache,          \* TERMINAL_ALIVE_<id> keys: id -> [value, ttl], ttl = seconds left
    deleting,       \* Terminal.delete between user.delete() and self.save(): id ->
                    \* [self, protocols]: the instance, and its protocol set
                    \* when delete was called (history)
    registered,     \* ids ever handed out by create, with the account given (history)
    seeders,        \* processes inside Protocol.get_or_create_protocols: [pc, data, i, ...]
    heartbeat,      \* per id, the last set_alive not yet elapsed: [ttl, age] (history)
    last,           \* the handler call that ended last: [op, id, result]
    scan,           \* a call of BaseTerminalQuerySet.alive(): [pc, todo, ids, ...]
    storages,       \* CommandStorage and ReplayStorage rows: kind -> name -> config
    settings,       \* django.conf.settings: attribute -> value
    platforms,      \* assets.Platform rows: id -> [type]
    platformProtocols,  \* assets.PlatformProtocol rows
    assets,         \* assets.Asset rows: id -> [platform]
    assetProtocols, \* assets.Protocol rows
    migration       \* migration 0121 as it runs: [pc, count]

viewVars == <<scan>>
storageVars == <<storages, settings>>
migrationVars == <<platforms, platformProtocols, assets, assetProtocols, migration>>

vars == <<terminals, termProtocols, users, protocols, nextPk, cache,
          deleting, seeders, registered, heartbeat, last,
          viewVars, storageVars, migrationVars>>

\* ------------------------------------------------------------ store helpers
\* Model.save(): UPDATE the row with this pk; when no row matched, INSERT it.
save(tbl, id, row) ==
    [x \in (DOMAIN tbl) \cup {id} |-> IF x = id THEN row ELSE tbl[x]]

\* the rows of tbl except the one with this pk
without(tbl, id) == [x \in (DOMAIN tbl) \ {id} |-> tbl[x]]

Done(op, id, result) == [op |-> op, id |-> id, result |-> result]

\* ------------------------------------------------------- TerminalStatusMixin
\* cache.get(key, False): the value of an unexpired key, else the default
cache_get(key) ==
    IF key \in DOMAIN cache /\ cache[key].ttl > 0 THEN cache[key].value ELSE FALSE

is_alive(t) == cache_get(t)

\* cache.set with the time-to-live of the call ignored
cache_set_default_ttl(key, ttl) == save(cache, key, [value |-> TRUE, ttl |-> MaxTtl])

\* cache.set(key, True, ttl): the key lives ttl seconds; a timeout of 0 expires it at once
cache_set(key, ttl) ==
    IF ttl > 0
    THEN save(cache, key, [value |-> TRUE, ttl |-> ttl])
    ELSE without(cache, key)

set_alive(t, ttl) ==
    /\ t \in DOMAIN registered
    /\ cache' = cache_set(t, ttl)
    /\ heartbeat' = IF ttl > 0 THEN save(heartbeat, t, [ttl |-> ttl, age |-> 0])
                    ELSE without(heartbeat, t)
    /\ last' = Done("set_alive", t, "ok")
    /\ UNCHANGED <<terminals, termProtocols, users, protocols, nextPk,
                   deleting, registered, seeders,
                   viewVars, storageVars, migrationVars>>

\* one second passes: every key has one second less to live, and the cache
\* drops the keys whose time-to-live has elapsed
expire(c) ==
    [k \in {x \in DOMAIN c : c[x].ttl > 1} |-> [c[k] EXCEPT !.ttl = @ - 1]]

Tick ==
    /\ cache' = expire(cache)
    /\ heartbeat' = [k \in {x \in DOMAIN heartbeat : heartbeat[x].age + 1 < heartbeat[x].ttl}
                        |-> [heartbeat[k] EXCEPT !.age = @ + 1]]
    /\ last' = Done("tick", None, "ok")
    /\ UNCHANGED <<terminals, termProtocols, users, protocols, nextPk,
                   deleting, registered, seeders,
                   viewVars, storageVars, migrationVars>>

\* ----------------------------------------------------------------- Terminal
\* Terminal.is_active (getter), lines 207-209: user is the linked account or None
user_and_active(hasUser, userIsActive) ==
    IF hasUser /\ userIsActive THEN TRUE ELSE FALSE

is_active(t) ==
    user_and_active(terminals[t].user # None,
                    IF terminals[t].user # None THEN users[terminals[t].user].is_active
                    ELSE FALSE)

\* the setter without the user.save() of line 215
set_active_unsaved(t, active) ==
    /\ t \in DOMAIN terminals
    /\ last' = [op |-> "set_active", id |-> t, result |-> "ok", active |-> active]
    /\ UNCHANGED <<terminals, termProtocols, users, protocols, nextPk, cache,
                   deleting, registered, seeders, heartbeat,
                   viewVars, storageVars, migrationVars>>

\* Terminal.is_active (setter)
set_active(t, active) ==
    /\ t \in DOMAIN terminals
    /\ users' = IF terminals[t].user # None
                THEN save(users, terminals[t].user, [is_active |-> active])
                ELSE users
    /\ last' = [op |-> "set_active", id |-> t, result |-> "ok", active |-> active]
    /\ UNCHANGED <<terminals, termProtocols, protocols, nextPk, cache,
                   deleting, registered, seeders, heartbeat,
                   viewVars, storageVars, migrationVars>>

\* the label with the deletion flag tested before the acceptance flag
status_deleted_first(accepted, deleted, active, alive) ==
    IF deleted THEN "Deleted"
    ELSE IF ~accepted THEN "NotAccept"
    ELSE IF ~active THEN "Disable"
    ELSE IF ~alive THEN "Offline"
    ELSE "Active"

\* Terminal.__str__: the status part of the label
status(accepted, deleted, active, alive) ==
    IF ~accepted THEN "NotAccept"
    ELSE IF deleted THEN "Deleted"
    ELSE IF ~active THEN "Disable"
    ELSE IF ~alive THEN "Offline"
    ELSE "Active"

str(t) ==
    status(terminals[t].is_accepted, terminals[t].is_deleted, is_active(t), is_alive(t))

\* registration: a row with a generated id, not accepted, not deleted, no protocols
create(t, ttype, withUser) ==
    /\ t \notin DOMAIN registered
    /\ terminals' = save(terminals, t,
            [name |-> "gw", type |-> ttype,
             command_storage |-> "default", replay_storage |-> "default",
             user |-> IF withUser THEN UserFor(t) ELSE None,
             is_accepted |-> FALSE, is_deleted |-> FALSE])
    /\ termProtocols' = save(termProtocols, t, {})
    /\ users' = IF withUser THEN save(users, UserFor(t), [is_active |-> TRUE]) ELSE users
    /\ registered' = save(registered, t, IF withUser THEN UserFor(t) ELSE None)
    /\ last' = Done("create", t, "ok")
    /\ UNCHANGED <<protocols, nextPk, cache, deleting, heartbeat, seeders,
                   viewVars, storageVars, migrationVars>>

\* acceptance by an administrator
accept(t) ==
    /\ t \in DOMAIN terminals
    /\ terminals' = save(terminals, t, [terminals[t] EXCEPT !.is_accepted = TRUE])
    /\ last' = Done("accept", t, "ok")
    /\ UNCHANGED <<termProtocols, users, protocols, nextPk, cache,
                   deleting, registered, seeders, heartbeat,
                   viewVars, storageVars, migrationVars>>

\* how a call of Terminal.delete ended, with the row and the protocol set the
\* terminal had when it was called (history)
Deleted(t, result, row, prots) ==
    [op |-> "delete", id |-> t, result |-> result, before |-> row, protocols |-> prots]

\* the instance saved with the account link left in place
deleted_instance_linked(self) == [self EXCEPT !.is_deleted = TRUE]

\* Terminal.delete, lines 256-257: what self.save() writes
deleted_instance(self) == [self EXCEPT !.user = None, !.is_deleted = TRUE]

\* Terminal.delete on a terminal without account: self.save() is the only write
delete_no_user(t, saved) ==
    /\ t \in DOMAIN terminals
    /\ terminals[t].user = None
    /\ terminals' = IF saved THEN save(terminals, t, deleted_instance(terminals[t]))
                    ELSE terminals
    /\ last' = Deleted(t, IF saved THEN "ok" ELSE "save raised",
                        terminals[t], termProtocols[t])
    /\ UNCHANGED <<termProtocols, users, protocols, nextPk, cache,
                   deleting, registered, seeders, heartbeat,
                   viewVars, storageVars, migrationVars>>

\* delete() going on to save the terminal as deleted after user.delete() raised
delete_user_swallowed(t, deleted) ==
    /\ t \in DOMAIN terminals
    /\ terminals[t].user # None
    /\ IF deleted
       THEN /\ users' = without(users, terminals[t].user)
            /\ terminals' = without(terminals, t)
            /\ termProtocols' = without(termProtocols, t)
            /\ deleting' = save(deleting, t, [self |-> terminals[t],
                                              protocols |-> termProtocols[t]])
            /\ last' = Done("user.delete", t, "ok")
       ELSE /\ terminals' = save(terminals, t, deleted_instance(terminals[t]))
            /\ last' = Deleted(t, "user.delete raised", terminals[t], termProtocols[t])
            /\ UNCHANGED <<users, termProtocols, deleting>>
    /\ UNCHANGED <<protocols, nextPk, cache, registered, seeders, heartbeat,
                   viewVars, storageVars, migrationVars>>

\* Terminal.delete, line 255: self.user.delete(). The account row goes, and with
\* it (user is on_delete=CASCADE) the terminal row and its membership rows.
\* A failing account deletion raises out of delete() and writes nothing.
delete_user(t, deleted) ==
    /\ t \in DOMAIN terminals
    /\ terminals[t].user # None
    /\ IF deleted
       THEN /\ users' = without(users, terminals[t].user)
            /\ terminals' = without(terminals, t)
            /\ termProtocols' = without(termProtocols, t)
            /\ deleting' = save(deleting, t, [self |-> terminals[t],
                                              protocols |-> termProtocols[t]])
            /\ last' = Done("user.delete", t, "ok")
       ELSE /\ last' = Deleted(t, "user.delete raised", terminals[t], termProtocols[t])
            /\ UNCHANGED <<users, terminals, termProtocols, deleting>>
    /\ UNCHANGED <<protocols, nextPk, cache, registered, seeders, heartbeat,
                   viewVars, storageVars, migrationVars>>

\* Terminal.delete, lines 256-258, after the account is gone: self.save()
\* finds no row to update and inserts one; the new row has no membership rows.
delete_save(t, saved) ==
    /\ t \in DOMAIN deleting
    /\ deleting' = without(deleting, t)
    /\ IF saved
       THEN /\ terminals' = save(terminals, t, deleted_instance(deleting[t].self))
            /\ termProtocols' = save(termProtocols, t, {})
       ELSE UNCHANGED <<terminals, termProtocols>>
    /\ last' = Deleted(t, IF saved THEN "ok" ELSE "save raised",
                        deleting[t].self, deleting[t].protocols)
    /\ UNCHANGED <<users, protocols, nextPk, cache, registered, seeders, heartbeat,
                   viewVars, storageVars, migrationVars>>

\* ----------------------------------------------------------------- Protocol
\* cls.objects.get(name=name, port=port, builtin=True)
lookup(rows, name, port) ==
    {r \in rows : r.name = name /\ r.port = port /\ r.builtin = TRUE}

\* a Protocol table without the unique constraint
conflicts_never(rows, name, port) == FALSE

\* unique_together = ('name', 'port'): the store refuses a second row of the pair
conflicts(rows, name, port) ==
    \E r \in rows : r.name = name /\ r.port = port

\* INSERT of one Protocol row
inserted(rows, pk, name, port, builtin) ==
    rows \cup {[pk |-> pk, name |-> name, port |-> port, builtin |-> builtin]}

\* cls.objects.get_or_create(name=name, port=port, builtin=True) run alone:
\* get; on DoesNotExist create; on IntegrityError get again, and raise when
\* that finds nothing either. st = [rows, nextPk, protocols, error].
get_or_create(st, name, port) ==
    IF lookup(st.rows, name, port) # {}
    THEN [st EXCEPT !.protocols = Append(@, (CHOOSE r \in lookup(st.rows, name, port) : TRUE).pk)]
    ELSE IF conflicts(st.rows, name, port)
    THEN [st EXCEPT !.error = "IntegrityError"]
    ELSE [st EXCEPT !.rows = inserted(@, st.nextPk, name, port, TRUE),
                    !.nextPk = @ + 1,
                    !.protocols = Append(@, st.nextPk)]

\* all([name, port]): d.get() gives None for a missing key; None, '' and 0 are falsy
wellformed(d) == d.name # "" /\ d.port # 0

\* Protocol.get_or_create_protocols(data), from entry i on
RECURSIVE get_or_create_from(_, _, _)
get_or_create_from(st, data, i) ==
    IF i > Len(data) \/ st.error # None THEN st
    ELSE IF ~wellformed(data[i]) THEN get_or_create_from(st, data, i + 1)
    ELSE get_or_create_from(get_or_create(st, data[i].name, data[i].port), data, i + 1)

get_or_create_protocols(rows, pk, data) ==
    get_or_create_from([rows |-> rows, nextPk |-> pk, protocols |-> <<>>, error |-> None],
                       data, 1)

\* Protocol.get_default_protocols_data(ttype), for a type the mapper knows
get_default_protocols_data(ttype) ==
    [i \in 1..Len(terminal_type_protocols_mapper[ttype]) |->
        [name |-> terminal_type_protocols_mapper[ttype][i],
         port |-> default_port(terminal_type_protocols_mapper[ttype][i]),
         builtin |-> TRUE]]

\* Protocol.get_default_protocols(ttype)
get_default_protocols(rows, pk, ttype) ==
    get_or_create_protocols(rows, pk, get_default_protocols_data(ttype))

\* Protocol.get_initial_data(): one builtin entry per ProtocolName
get_initial_data ==
    <<[name |-> "rdp", port |-> default_port("rdp"), builtin |-> TRUE],
      [name |-> "ssh", port |-> default_port("ssh"), builtin |-> TRUE]>>

Range(f) == {f[i] : i \in DOMAIN f}

\* a caller of Protocol.get_or_create_protocols(data), run without interleaving
seed(op, data) ==
    LET r == get_or_create_protocols(protocols, nextPk, data) IN
    /\ protocols' = r.rows
    /\ nextPk' = r.nextPk
    /\ last' = [op |-> op, id |-> None,
                result |-> IF r.error = None THEN "ok" ELSE r.error,
                data |-> data, protocols |-> r.protocols,
                again |-> (last.op = op /\ last.data = data)]
    /\ UNCHANGED <<terminals, termProtocols, users, cache, deleting, registered, seeders, heartbeat,
                   viewVars, storageVars, migrationVars>>

\* ---- Protocol.get_or_create_protocols, one store statement per step, as
\* ---- several initializing processes run it side by side
Procs == {"p1", "p2"}
Idle == [pc |-> "idle", data |-> <<>>, i |-> 1, protocols |-> <<>>, error |-> None]

\* the call: line 170
seeder_call(p, data) ==
    /\ seeders[p].pc = "idle"
    /\ seeders' = [seeders EXCEPT ![p] = [Idle EXCEPT !.pc = "get", !.data = data]]
    /\ last' = Done("call", p, "ok")
    /\ UNCHANGED <<terminals, termProtocols, users, protocols, nextPk, cache,
                   deleting, registered, heartbeat,
                   viewVars, storageVars, migrationVars>>

\* lines 171-176: the loop head, the skip of a malformed entry, and the get of
\* get_or_create; line 180 when the entries are used up
seeder_get(p) ==
    LET w == seeders[p]
        d == w.data[w.i]
        found == lookup(protocols, d.name, d.port) IN
    /\ w.pc = "get"
    /\ seeders' = [seeders EXCEPT ![p] =
            IF w.i > Len(w.data) THEN [w EXCEPT !.pc = "returned"]
            ELSE IF ~wellformed(d) THEN [w EXCEPT !.i = @ + 1]
            ELSE IF found # {}
            THEN [w EXCEPT !.i = @ + 1,
                           !.protocols = Append(@, (CHOOSE r \in found : TRUE).pk)]
            ELSE [w EXCEPT !.pc = "create"]]
    /\ last' = Done("get", p, "ok")
    /\ UNCHANGED <<terminals, termProtocols, users, protocols, nextPk, cache,
                   deleting, registered, heartbeat,
                   viewVars, storageVars, migrationVars>>

\* the create of get_or_create: the INSERT, which the unique constraint may refuse
seeder_create(p) ==
    LET w == seeders[p]
        d == w.data[w.i] IN
    /\ w.pc = "create"
    /\ IF conflicts(protocols, d.name, d.port)
       THEN /\ seeders' = [seeders EXCEPT ![p] = [w EXCEPT !.pc = "get_again"]]
            /\ UNCHANGED <<protocols, nextPk>>
       ELSE /\ protocols' = inserted(protocols, nextPk, d.name, d.port, TRUE)
            /\ nextPk' = nextPk + 1
            /\ seeders' = [seeders EXCEPT ![p] =
                    [w EXCEPT !.pc = "get", !.i = @ + 1, !.protocols = Append(@, nextPk)]]
    /\ last' = Done("create", p, "ok")
    /\ UNCHANGED <<terminals, termProtocols, users, cache,
                   deleting, registered, heartbeat,
                   viewVars, storageVars, migrationVars>>

\* the second get of get_or_create, after the IntegrityError; the error is
\* raised again when the row is still not found
seeder_get_again(p) ==
    LET w == seeders[p]
        d == w.data[w.i]
        found == lookup(protocols, d.name, d.port) IN
    /\ w.pc = "get_again"
    /\ seeders' = [seeders EXCEPT ![p] =
            IF found # {}
            THEN [w EXCEPT !.pc = "get", !.i = @ + 1,
                           !.protocols = Append(@, (CHOOSE r \in found : TRUE).pk)]
            ELSE [w EXCEPT !.pc = "raised", !.error = "IntegrityError"]]
    /\ last' = Done("get_again", p, "ok")
    /\ UNCHANGED <<terminals, termProtocols, users, protocols, nextPk, cache,
                   deleting, registered, heartbeat,
                   viewVars, storageVars, migrationVars>>

\* Protocol.initial_to_db()
initial_to_db == seed("initial_to_db", get_initial_data)

\* a Protocol row made by hand: builtin takes its default, False
create_protocol(name, port) ==
    /\ ~conflicts(protocols, name, port)
    /\ protocols' = inserted(protocols, nextPk, name, port, FALSE)
    /\ nextPk' = nextPk + 1
    /\ last' = Done("create_protocol", None, "ok")
    /\ UNCHANGED <<terminals, termProtocols, users, cache, deleting, registered, seeders, heartbeat,
                   viewVars, storageVars, migrationVars>>

\* a membership row added with no foreign key to the Protocol table
add_protocol_unchecked(t, pk) ==
    /\ t \in DOMAIN terminals
    /\ termProtocols' = save(termProtocols, t, termProtocols[t] \cup {pk})
    /\ last' = Done("add_protocol", t, "ok")
    /\ UNCHANGED <<terminals, users, protocols, nextPk, cache, deleting, registered, seeders, heartbeat,
                   viewVars, storageVars, migrationVars>>

\* terminal.protocols.add(protocol): a membership row added by hand
add_protocol(t, pk) ==
    /\ t \in DOMAIN terminals
    /\ pk \in {r.pk : r \in protocols}
    /\ termProtocols' = save(termProtocols, t, termProtocols[t] \cup {pk})
    /\ last' = Done("add_protocol", t, "ok")
    /\ UNCHANGED <<terminals, users, protocols, nextPk, cache, deleting, registered, seeders, heartbeat,
                   viewVars, storageVars, migrationVars>>

\* reset_protocols_to_default with the error of an unmapped type swallowed:
\* the terminal is left with no protocol
reset_protocols_swallowed(t) ==
    /\ t \in DOMAIN terminals
    /\ terminals[t].type \notin DOMAIN terminal_type_protocols_mapper
    /\ termProtocols' = save(termProtocols, t, {})
    /\ last' = Done("reset_protocols_to_default", t, "ok")
    /\ UNCHANGED <<terminals, users, protocols, nextPk, cache, deleting, registered, seeders, heartbeat,
                   viewVars, storageVars, migrationVars>>

\* Terminal.reset_protocols_to_default
reset_protocols_to_default(t) ==
    /\ t \in DOMAIN terminals
    /\ IF terminals[t].type \notin DOMAIN terminal_type_protocols_mapper
       THEN /\ last' = Done("reset_protocols_to_default", t, "AssertionError")
            /\ UNCHANGED <<protocols, nextPk, termProtocols>>
       ELSE LET r == get_default_protocols(protocols, nextPk, terminals[t].type) IN
            /\ protocols' = r.rows
            /\ nextPk' = r.nextPk
            /\ termProtocols' = IF r.error = None
                                THEN save(termProtocols, t, Range(r.protocols))
                                ELSE termProtocols
            /\ last' = Done("reset_protocols_to_default", t,
                            IF r.error = None THEN "ok" ELSE r.error)
    /\ UNCHANGED <<terminals, users, cache, deleting, registered, seeders, heartbeat,
                   viewVars, storageVars, migrationVars>>

\* ------------------------------------------------------ BaseTerminalQuerySet
\* Terminal.objects: every row of the table
objects == DOMAIN terminals

\* undeleted(): filter(is_deleted=False)
qs_undeleted(qs) == {t \in qs : ~terminals[t].is_deleted}

\* active() taking every terminal linked to an account, enabled or not
qs_active_linked(qs) ==
    {t \in qs_undeleted(qs) :
        /\ terminals[t].user # None
        /\ terminals[t].user \in DOMAIN users}

\* active(): undeleted().filter(user__is_active=True), an inner join with the
\* accounts: a terminal without an account row is not in the result
qs_active(qs) ==
    {t \in qs_undeleted(qs) :
        /\ terminals[t].user # None
        /\ terminals[t].user \in DOMAIN users
        /\ users[terminals[t].user].is_active}

\* alive() when nothing else runs between its queries and its cache lookups
qs_alive(qs) == {t \in qs : t \in {i \in qs_active(qs) : is_alive(i)}}

\* alive() as it runs: the query of self.active(), one cache lookup per
\* instance of its result, then the query of self.filter(id__in=ids).
\* result is the ids and rows the instances of the last query; terminals and
\* users are the store at the first query, seen the seconds each looked-up key
\* had left at its lookup (history).
NoScan == [pc |-> "idle", todo |-> {}, ids |-> {}, result |-> {}, rows |-> <<>>,
           terminals |-> <<>>, users |-> <<>>, seen |-> <<>>]

alive_started(candidates) ==
    /\ scan.pc \in {"idle", "returned"}
    /\ scan' = [pc |-> "lookup", todo |-> candidates, ids |-> {}, result |-> {},
                rows |-> <<>>,
                terminals |-> terminals, users |-> users, seen |-> <<>>]
    /\ UNCHANGED <<terminals, termProtocols, users, protocols, nextPk, cache,
                   deleting, registered, seeders, heartbeat, last,
                   storageVars, migrationVars>>

\* the comprehension iterating self.undeleted() in place of self.active()
alive_call_undeleted == alive_started(qs_undeleted(objects))

\* for i in self.active()
alive_call == alive_started(qs_active(objects))

\* if i.is_alive: the next instance of the iteration, in the order of the rows
alive_lookup(t) ==
    /\ scan.pc = "lookup"
    /\ t \in scan.todo
    /\ scan' = [scan EXCEPT !.todo = @ \ {t},
                            !.ids = IF is_alive(t) THEN @ \cup {t} ELSE @,
                            !.seen = save(@, t, IF t \in DOMAIN cache
                                                THEN cache[t].ttl ELSE 0)]
    /\ UNCHANGED <<terminals, termProtocols, users, protocols, nextPk, cache,
                   deleting, registered, seeders, heartbeat, last,
                   storageVars, migrationVars>>

\* return self.filter(id__in=ids), evaluated
alive_return ==
    /\ scan.pc = "lookup"
    /\ scan.todo = {}
    /\ scan' = [scan EXCEPT !.pc = "returned",
                            !.result = {t \in objects : t \in scan.ids},
                            !.rows = [t \in {x \in objects : x \in scan.ids} |->
                                        terminals[t]]]
    /\ UNCHANGED <<terminals, termProtocols, users, protocols, nextPk, cache,
                   deleting, registered, seeders, heartbeat, last,
                   storageVars, migrationVars>>

\* -------------------------------------------------------------- StorageMixin
\* no CommandStorage row and no ReplayStorage row
NoStorages == [command |-> <<>>, replay |-> <<>>]

\* names of storage backends, and the configurations they and the settings hold
StorageNames == {"default", "es"}
Configs == {[TYPE |-> "server"], [TYPE |-> "es", HOSTS |-> "es1"]}

\* a settings attribute is the pair of its name up to the first underscore
\* and the rest of it
TERMINAL_COMMAND_STORAGE == <<"TERMINAL", "COMMAND_STORAGE">>
TERMINAL_REPLAY_STORAGE == <<"TERMINAL", "REPLAY_STORAGE">>
TERMINAL_HEADER_TITLE == <<"TERMINAL", "HEADER_TITLE">>
TERMINAL_PASSWORD_AUTH == <<"TERMINAL", "PASSWORD_AUTH">>
DEFAULT_TERMINAL_COMMAND_STORAGE == <<"DEFAULT", "TERMINAL_COMMAND_STORAGE">>
DEFAULT_TERMINAL_REPLAY_STORAGE == <<"DEFAULT", "TERMINAL_REPLAY_STORAGE">>
SECURITY_MAX_IDLE_TIME == <<"SECURITY", "MAX_IDLE_TIME">>
SECURITY_SESSION_SHARE == <<"SECURITY", "SESSION_SHARE">>
SITE_URL == <<"SITE", "URL">>

\* k.startswith(prefix), for a prefix that is the first word of attribute names
startswith(k, prefix) == k[1] = prefix

\* the settings of a fresh installation
DefaultSettings ==
    [k \in {TERMINAL_PASSWORD_AUTH, SITE_URL, DEFAULT_TERMINAL_COMMAND_STORAGE,
            DEFAULT_TERMINAL_REPLAY_STORAGE, SECURITY_MAX_IDLE_TIME,
            SECURITY_SESSION_SHARE} |->
        CASE k = TERMINAL_PASSWORD_AUTH -> TRUE
          [] k = SITE_URL -> "http://localhost"
          [] k = DEFAULT_TERMINAL_COMMAND_STORAGE -> [TYPE |-> "server"]
          [] k = DEFAULT_TERMINAL_REPLAY_STORAGE -> [TYPE |-> "server"]
          [] k = SECURITY_MAX_IDLE_TIME -> 30
          [] k = SECURITY_SESSION_SHARE -> TRUE]

\* setattr(settings, k, v): a setting given a value by the administrator
set_setting(k, v) ==
    /\ settings' = save(settings, k, v)
    /\ last' = Done("set_setting", None, "ok")
    /\ UNCHANGED <<terminals, termProtocols, users, protocols, nextPk, cache,
                   deleting, registered, seeders, heartbeat, storages,
                   viewVars, migrationVars>>

\* a CommandStorage (kind "command") or ReplayStorage (kind "replay") row
\* created or edited
save_storage(kind, name, config) ==
    /\ storages' = [storages EXCEPT ![kind] = save(@, name, config)]
    /\ last' = Done("save_storage", None, "ok")
    /\ UNCHANGED <<terminals, termProtocols, users, protocols, nextPk, cache,
                   deleting, registered, seeders, heartbeat, settings,
                   viewVars, migrationVars>>

\* a storage row deleted
delete_storage(kind, name) ==
    /\ name \in DOMAIN storages[kind]
    /\ storages' = [storages EXCEPT ![kind] = without(@, name)]
    /\ last' = Done("delete_storage", None, "ok")
    /\ UNCHANGED <<terminals, termProtocols, users, protocols, nextPk, cache,
                   deleting, registered, seeders, heartbeat, settings,
                   viewVars, migrationVars>>

\* Terminal.command_storage and Terminal.replay_storage given new names
set_storage(t, command, replay) ==
    /\ t \in DOMAIN terminals
    /\ terminals' = save(terminals, t, [terminals[t] EXCEPT !.command_storage = command,
                                                             !.replay_storage = replay])
    /\ last' = Done("set_storage", t, "ok")
    /\ UNCHANGED <<termProtocols, users, protocols, nextPk, cache,
                   deleting, registered, seeders, heartbeat,
                   viewVars, storageVars, migrationVars>>

\* CommandStorage.objects.filter(name=self.command_storage).first(): the row
\* of that name, as the set of its names (empty for None)
get_command_storage(t) ==
    {n \in DOMAIN storages.command : n = terminals[t].command_storage}

get_command_storage_config(t) ==
    IF get_command_storage(t) # {}
    THEN storages.command[CHOOSE n \in get_command_storage(t) : TRUE]
    ELSE settings[DEFAULT_TERMINAL_COMMAND_STORAGE]

get_command_storage_setting(t) ==
    [k \in {TERMINAL_COMMAND_STORAGE} |-> get_command_storage_config(t)]

get_replay_storage(t) ==
    {n \in DOMAIN storages.replay : n = terminals[t].replay_storage}

\* get_replay_storage_config falling back to the command-storage default
get_replay_storage_config_command_default(t) ==
    IF get_replay_storage(t) # {}
    THEN storages.replay[CHOOSE n \in get_replay_storage(t) : TRUE]
    ELSE settings[DEFAULT_TERMINAL_COMMAND_STORAGE]

get_replay_storage_config(t) ==
    IF get_replay_storage(t) # {}
    THEN storages.replay[CHOOSE n \in get_replay_storage(t) : TRUE]
    ELSE settings[DEFAULT_TERMINAL_REPLAY_STORAGE]

get_replay_storage_setting(t) ==
    [k \in {TERMINAL_REPLAY_STORAGE} |-> get_replay_storage_config(t)]

\* settings.utils.get_login_title()
get_login_title == "JumpServer Open Source Bastion Host"

\* Terminal.get_login_title_setting
get_login_title_setting == [k \in {TERMINAL_HEADER_TITLE} |-> get_login_title]

\* a merge in which the keys already there keep their values
update_setdefault(a, b) ==
    [k \in (DOMAIN a) \cup (DOMAIN b) |-> IF k \in DOMAIN a THEN a[k] ELSE b[k]]

\* a.update(b): the keys of b get the values of b
update(a, b) ==
    [k \in (DOMAIN a) \cup (DOMAIN b) |-> IF k \in DOMAIN b THEN b[k] ELSE a[k]]

\* Terminal.config
config(t) ==
    LET terminal_settings ==
            [k \in {x \in DOMAIN settings : startswith(x, "TERMINAL")} |-> settings[k]]
        with_command == update(terminal_settings, get_command_storage_setting(t))
        with_replay == update(with_command, get_replay_storage_setting(t))
        with_title == update(with_replay, get_login_title_setting)
    IN update(with_title,
              [k \in {SECURITY_MAX_IDLE_TIME, SECURITY_SESSION_SHARE} |-> settings[k]])

\* a caller reading terminal.config
get_config(t) ==
    /\ t \in DOMAIN terminals
    /\ last' = [op |-> "config", id |-> t, result |-> "ok", configs |-> config(t)]
    /\ UNCHANGED <<terminals, termProtocols, users, protocols, nextPk, cache,
                   deleting, registered, seeders, heartbeat,
                   viewVars, storageVars, migrationVars>>

\* a caller reading both storage configurations of a terminal
read_storage_config(t) ==
    /\ t \in DOMAIN terminals
    /\ last' = [op |-> "get_storage_config", id |-> t, result |-> "ok",
                command |-> get_command_storage_config(t),
                replay |-> get_replay_storage_config(t)]
    /\ UNCHANGED <<terminals, termProtocols, users, protocols, nextPk, cache,
                   deleting, registered, seeders, heartbeat,
                   viewVars, storageVars, migrationVars>>

\* ------------------------------------------------- migration 0121 of assets
PlatformIds == 1..NumPlatforms
AssetIds == 1..NumAssets

\* the migration before migrate_assets_sftp_protocol is called
NotStarted == [pc |-> "start", count |-> 0, sftp_platforms |-> {}]

\* the elements of a set of ids as the store returns them: in the order of the ids
Sorted(S) ==
    CHOOSE q \in [1..Cardinality(S) -> S] : \A i, j \in 1..Cardinality(S) : i < j => q[i] < q[j]

\* qs[low:high], run as a query with OFFSET low LIMIT high - low
slice(q, low, high) ==
    [i \in 1..(IF Len(q) < high THEN IF Len(q) > low THEN Len(q) - low ELSE 0
               ELSE high - low) |-> q[low + i]]

\* a PlatformProtocol row; sftp_enabled and sftp_home are keys of its setting
\* ("" for a key that is not there)
PlatformProtocol(pk, platform, name, port, sftp_enabled, sftp_home) ==
    [pk |-> pk, platform |-> platform, name |-> name, port |-> port,
     sftp_enabled |-> sftp_enabled, sftp_home |-> sftp_home,
     primary |-> name = "ssh", required |-> FALSE, default |-> TRUE, public |-> TRUE]

\* platform_cls.objects.filter(protocols__name='sftp')
platforms_has_sftp ==
    {p \in DOMAIN platforms : \E r \in platformProtocols : r.platform = p /\ r.name = "sftp"}

\* the ssh protocols of linux platforms with sftp enabled in their setting
ssh_protocols ==
    {r \in platformProtocols :
        /\ r.name = "ssh" /\ r.sftp_enabled
        /\ r.name \notin {"Gateway", "RemoteAppHost"}
        /\ platforms[r.platform].type = "linux"}

\* every entry of the list kept: one new protocol per ssh protocol
new_protocols_list(rows) == {rows}

\* new_protocols_dict: one entry per (name, platform), the one that came last
\* in the order the store returned the ssh protocols, which is any of them
new_protocols_dict(rows) ==
    {chosen \in SUBSET rows :
        \A p \in {r.platform : r \in rows} :
            Cardinality({r \in chosen : r.platform = p}) = 1}

\* bulk_create: the sftp protocol made from each chosen ssh protocol, with
\* the next primary keys
sftp_of(chosen) ==
    LET first == IF platformProtocols = {} THEN 1
                 ELSE 1 + (CHOOSE m \in {r.pk : r \in platformProtocols} :
                              \A r \in platformProtocols : r.pk <= m)
        order == Sorted({r.pk : r \in chosen})
    IN {PlatformProtocol(first + i - 1, r.platform, "sftp", r.port, FALSE,
                         IF r.sftp_home = "" THEN "/tmp" ELSE r.sftp_home) :
            <<i, r>> \in {x \in (1..Cardinality(chosen)) \X chosen : order[x[1]] = x[2].pk}}

\* migrate_platforms_sftp_protocol, run once more
migrate_platforms_sftp_protocol ==
    /\ migration.pc \in {"start", "platforms"}
    /\ \E chosen \in new_protocols_dict({r \in ssh_protocols :
                                            r.platform \notin platforms_has_sftp}) :
          platformProtocols' = platformProtocols \cup sftp_of(chosen)
    /\ migration' = [migration EXCEPT !.pc = IF @ = "start" THEN "platforms"
                                             ELSE "platforms_again"]
    /\ UNCHANGED <<terminals, termProtocols, users, protocols, nextPk, cache,
                   deleting, registered, seeders, heartbeat, last,
                   platforms, assets, assetProtocols,
                   viewVars, storageVars>>

\* asset_ids, run against the store as it is now: the assets of the sftp
\* platforms that have no sftp protocol
asset_ids(sftp_platforms) ==
    Sorted({a \in DOMAIN assets :
              /\ assets[a].platform \in sftp_platforms
              /\ ~\E r \in assetProtocols : r.asset = a /\ r.name = "sftp"})

\* migrate_assets_sftp_protocol up to its loop: the platforms with sftp are
\* listed, the query of the asset ids is built and not run
migrate_assets_start ==
    /\ migration.pc = "start"
    /\ migration' = [pc |-> "loop", count |-> 0, sftp_platforms |-> platforms_has_sftp]
    /\ UNCHANGED <<terminals, termProtocols, users, protocols, nextPk, cache,
                   deleting, registered, seeders, heartbeat, last,
                   platforms, platformProtocols, assets, assetProtocols,
                   viewVars, storageVars>>

\* one turn of the loop: the slice of asset_ids is run; when it is empty the
\* loop ends, otherwise every asset of the slice with an ssh protocol gets an
\* sftp protocol with the port of the ssh one
migrate_assets_batch ==
    /\ migration.pc = "loop"
    /\ LET _asset_ids == slice(asset_ids(migration.sftp_platforms),
                               migration.count, migration.count + BatchSize)
           asset_ssh_protocols == {r \in assetProtocols :
                                r.name = "ssh" /\ r.asset \in Range(_asset_ids)}
           new_protocols == {[asset |-> r.asset, name |-> "sftp", port |-> r.port] :
                                r \in asset_ssh_protocols}
       IN IF _asset_ids = <<>>
          THEN /\ migration' = [migration EXCEPT !.pc = "done"]
               /\ UNCHANGED assetProtocols
          ELSE /\ migration' = [migration EXCEPT !.count = @ + BatchSize]
               /\ assetProtocols' = assetProtocols \cup new_protocols
    /\ UNCHANGED <<terminals, termProtocols, users, protocols, nextPk, cache,
                   deleting, registered, seeders, heartbeat, last,
                   platforms, platformProtocols, assets,
                   viewVars, storageVars>>

\* ---------------------------------------------------------------- behaviour
\* no terminal, no account, no protocol, an empty cache, no storage backend
InitTerminals ==
    /\ terminals = <<>>
    /\ termProtocols = <<>>
    /\ users = <<>>
    /\ protocols = {}
    /\ nextPk = 1
    /\ cache = <<>>
    /\ deleting = <<>>
    /\ seeders = [p \in Procs |-> Idle]
    /\ registered = <<>>
    /\ heartbeat = <<>>
    /\ last = Done("init", None, "ok")
    /\ scan = NoScan
    /\ storages = NoStorages
    /\ settings = DefaultSettings

Init ==
    /\ InitTerminals
    /\ platforms = <<>>
    /\ platformProtocols = {}
    /\ assets = <<>>
    /\ assetProtocols = {}
    /\ migration = NotStarted

\* entries handed to get_or_create_protocols: well-formed ones and ones
\* lacking the name or the port
Entries ==
    {[name |-> "ssh", port |-> 22, builtin |-> TRUE],
     [name |-> "rdp", port |-> 3389, builtin |-> TRUE],
     [name |-> "", port |-> 22, builtin |-> TRUE],
     [name |-> "rdp", port |-> 0, builtin |-> TRUE]}

DataLists == {<<>>} \cup {<<a>> : a \in Entries} \cup {<<a, b>> : a, b \in Entries}

\* (name, port) pairs of the Protocol rows made by hand
CustomPairs == {<<"ssh", 22>>, <<"ssh", 2222>>}

\* the life cycle of terminals
Next ==
    \/ \E t \in TermIds, withUser \in BOOLEAN : create(t, "koko", withUser)
    \/ \E t \in TermIds : accept(t)
    \/ \E t \in TermIds, active \in BOOLEAN : set_active(t, active)
    \/ \E t \in TermIds, ttl \in {0, 2} : set_alive(t, ttl)
    \/ Tick
    \/ \E t \in TermIds : reset_protocols_to_default(t)
    \/ \E t \in TermIds, saved \in BOOLEAN : delete_no_user(t, saved)
    \/ \E t \in TermIds, deleted \in BOOLEAN : delete_user(t, deleted)
    \/ \E t \in TermIds, saved \in BOOLEAN : delete_save(t, saved)

Spec == Init /\ [][Next]_vars

\* the query views of the registry, with alive() running beside the handlers
NextViews ==
    \/ \E t \in TermIds, withUser \in BOOLEAN : create(t, "koko", withUser)
    \/ \E t \in TermIds, active \in BOOLEAN : set_active(t, active)
    \/ \E t \in TermIds, ttl \in {0, 2} : set_alive(t, ttl)
    \/ Tick
    \/ \E t \in TermIds, saved \in BOOLEAN : delete_no_user(t, saved)
    \/ \E t \in TermIds, deleted \in BOOLEAN : delete_user(t, deleted)
    \/ \E t \in TermIds, saved \in BOOLEAN : delete_save(t, saved)
    \/ alive_call
    \/ \E t \in TermIds : alive_lookup(t)
    \/ alive_return

SpecViews == Init /\ [][NextViews]_vars

\* protocol sets of terminals that are seeded, reset and deleted
NextMembership ==
    \/ \E ttype \in TerminalTypeChoices, withUser \in BOOLEAN : create("t1", ttype, withUser)
    \/ \E a \in Entries : seed("get_or_create_protocols", <<a>>)
    \/ initial_to_db
    \/ \E p \in CustomPairs : create_protocol(p[1], p[2])
    \/ \E pk \in 1..3 : add_protocol("t1", pk)
    \/ reset_protocols_to_default("t1")
    \/ \E saved \in BOOLEAN : delete_no_user("t1", saved)
    \/ \E deleted \in BOOLEAN : delete_user("t1", deleted)
    \/ \E saved \in BOOLEAN : delete_save("t1", saved)

SpecMembership == Init /\ [][NextMembership]_vars

\* stores the asset backfill is run on: the first platform has an sftp
\* protocol and the others have none; every asset is of some platform, has an
\* ssh protocol or none, and an sftp protocol or none
ssh_port(a) == IF a % 2 = 1 THEN 22 ELSE 2222

InitAssets ==
    /\ InitTerminals
    /\ platforms = [p \in PlatformIds |-> [type |-> "linux"]]
    /\ platformProtocols =
          {PlatformProtocol(p, p, "ssh", 22, FALSE, "") : p \in PlatformIds}
          \cup {PlatformProtocol(NumPlatforms + 1, 1, "sftp", 22, FALSE, "/tmp")}
    /\ assets \in [AssetIds -> [platform : PlatformIds]]
    /\ \E withSsh, withSftp \in SUBSET AssetIds :
          assetProtocols =
              {[asset |-> a, name |-> "ssh", port |-> ssh_port(a)] : a \in withSsh}
              \cup {[asset |-> a, name |-> "sftp", port |-> 22] : a \in withSftp}
    /\ migration = NotStarted

NextAssets ==
    \/ migrate_assets_start
    \/ migrate_assets_batch

SpecAssets == InitAssets /\ [][NextAssets]_vars

\* stores the platform backfill is run on: platforms of two types, each with
\* any of three ssh protocols (two with sftp enabled) and an sftp protocol
PlatformRows(p) ==
    {PlatformProtocol(4 * p - 3, p, "ssh", 22, TRUE, "/home"),
     PlatformProtocol(4 * p - 2, p, "ssh", 2222, TRUE, ""),
     PlatformProtocol(4 * p - 1, p, "ssh", 2200, FALSE, ""),
     PlatformProtocol(4 * p, p, "sftp", 22, FALSE, "/tmp")}

InitPlatforms ==
    /\ InitTerminals
    /\ platforms \in [PlatformIds -> [type : {"linux", "windows"}]]
    /\ platformProtocols \in SUBSET UNION {PlatformRows(p) : p \in PlatformIds}
    /\ assets = <<>>
    /\ assetProtocols = {}
    /\ migration = NotStarted

NextPlatforms == migrate_platforms_sftp_protocol

SpecPlatforms == InitPlatforms /\ [][NextPlatforms]_vars

\* values an administrator gives to settings
SettingChoices ==
    {<<TERMINAL_COMMAND_STORAGE, [TYPE |-> "null"]>>,
     <<TERMINAL_REPLAY_STORAGE, [TYPE |-> "null"]>>,
     <<TERMINAL_HEADER_TITLE, "Welcome">>,
     <<DEFAULT_TERMINAL_COMMAND_STORAGE, [TYPE |-> "es", HOSTS |-> "es1"]>>}

\* storage backends, settings and what a terminal is configured with
NextStorage ==
    \/ create("t1", "koko", FALSE)
    \/ \E c \in SettingChoices : set_setting(c[1], c[2])
    \/ \E kind \in {"command", "replay"}, name \in StorageNames, cfg \in Configs :
          save_storage(kind, name, cfg)
    \/ \E kind \in {"command", "replay"}, name \in StorageNames : delete_storage(kind, name)
    \/ \E command, replay \in StorageNames : set_storage("t1", command, replay)
    \/ read_storage_config("t1")
    \/ get_config("t1")

SpecStorage == Init /\ [][NextStorage]_vars

\* the protocol catalog and the protocol sets of terminals
NextProtocols ==
    \/ \E ttype \in TerminalTypeChoices : create("t1", ttype, FALSE)
    \/ \E data \in DataLists : seed("get_or_create_protocols", data)
    \/ initial_to_db
    \/ \E p \in CustomPairs : create_protocol(p[1], p[2])
    \/ \E pk \in 1..3 : add_protocol("t1", pk)
    \/ reset_protocols_to_default("t1")

SpecProtocols == Init /\ [][NextProtocols]_vars

\* the liveness keys alone: registrations, heartbeats and the passing of time,
\* which never stops
NextAlive ==
    \/ \E t \in TermIds, withUser \in BOOLEAN : create(t, "koko", withUser)
    \/ \E t \in TermIds, ttl \in 0..MaxTtl : set_alive(t, ttl)
    \/ Tick

SpecAlive == Init /\ [][NextAlive]_vars /\ WF_vars(Tick)

\* several processes seeding the catalog at once
NextSeeding ==
    \/ \E p \in Procs, data \in DataLists : seeder_call(p, data)
    \/ \E p \in Procs : seeder_get(p)
    \/ \E p \in Procs : seeder_create(p)
    \/ \E p \in Procs : seeder_get_again(p)
    \/ \E q \in CustomPairs : create_protocol(q[1], q[2])

SpecSeeding == Init /\ [][NextSeeding]_vars

\* ------------------------------------------------------------------- claims
Labels == {"NotAccept", "Deleted", "Disable", "Offline", "Active"}

\* what the priority order of the labels asks of one label
Priority(label, accepted, deleted, active, alive) ==
    /\ label \in Labels
    /\ ~accepted => label = "NotAccept"
    /\ accepted /\ deleted => label = "Deleted"
    /\ accepted /\ ~deleted /\ ~active => label = "Disable"
    /\ accepted /\ ~deleted /\ active /\ ~alive => label = "Offline"
    /\ accepted /\ ~deleted /\ active /\ alive => label = "Active"

\* C1: the status label follows the priority order not accepted, deleted,
\* disabled, offline, active: for every combination of the acceptance flag,
\* the deletion flag, an account being linked, the account being enabled and
\* the liveness flag, and for every terminal of the store, the label is the
\* one of the first test that applies; a terminal that is not accepted is
\* labelled NotAccept whatever its other flags.
C1_StatusPriority ==
    /\ \A accepted, deleted, hasUser, enabled, alive \in BOOLEAN :
          Priority(status(accepted, deleted, user_and_active(hasUser, enabled), alive),
                   accepted, deleted, hasUser /\ enabled, alive)
    /\ \A t \in DOMAIN terminals :
          Priority(str(t), terminals[t].is_accepted, terminals[t].is_deleted,
                   /\ terminals[t].user # None
                   /\ terminals[t].user \in DOMAIN users
                   /\ users[terminals[t].user].is_active,
                   t \in DOMAIN cache)

\* a terminal not accepted, deleted, without enabled account and offline
C1_Witness ==
    \E t \in DOMAIN terminals :
        /\ ~terminals[t].is_accepted /\ terminals[t].is_deleted
        /\ registered[t] # None /\ ~is_alive(t)
        /\ str(t) = "NotAccept"

\* C2: when the deletion of the owning account fails inside Terminal.delete,
\* the call ends as failed and the terminal is as it was: its row is there,
\* not marked deleted, linked to the same account, which still exists, and its
\* protocol set is the one it had.
C2_FailedDeleteChangesNothing ==
    \A t \in TermIds :
        (last.op = "delete" /\ last.id = t /\ last.result = "user.delete raised") =>
            /\ t \in DOMAIN terminals
            /\ terminals[t] = last.before
            /\ ~terminals[t].is_deleted
            /\ terminals[t].user = registered[t]
            /\ terminals[t].user \in DOMAIN users
            /\ termProtocols[t] = last.protocols

\* a delete that failed on the account of an accepted terminal with protocols
C2_Witness ==
    \E t \in DOMAIN terminals :
        /\ last.op = "delete" /\ last.id = t /\ last.result = "user.delete raised"
        /\ terminals[t].is_accepted
        /\ termProtocols[t] # {}

\* C3: the deletion of the account and the marking of the terminal are one
\* atomic unit: in every state of the store, the account a terminal was
\* registered with is gone exactly when the terminal is recorded as deleted.
C3_DeleteIsAtomic ==
    \A t \in DOMAIN registered :
        registered[t] # None =>
            (registered[t] \notin DOMAIN users
                <=> (t \in DOMAIN terminals /\ terminals[t].is_deleted))

\* a terminal is recorded as deleted
IsDeleted(t) == t \in DOMAIN terminals /\ terminals[t].is_deleted

\* C4: in every state a terminal whose deletion flag is true has no owning
\* account (no link, and the account it was registered with is gone), and a
\* deletion flag that is true stays true.
C4_DeletedForGood ==
    /\ [](\A t \in TermIds :
            IsDeleted(t) => /\ terminals[t].user = None
                            /\ registered[t] \notin DOMAIN users)
    /\ [][\A t \in TermIds : IsDeleted(t) => IsDeleted(t)']_vars

\* a terminal deleted with its account, and operated on after that
C4_Witness ==
    \E t \in DOMAIN terminals :
        /\ IsDeleted(t) /\ registered[t] # None
        /\ last.op = "reset_protocols_to_default" /\ last.id = t /\ last.result = "ok"

\* C5: delete is soft: after a delete that succeeded the row of the terminal
\* is in the store under the same id with the name, the type, the acceptance
\* flag and the protocol set it had; the account link is cleared, the account
\* is gone and the deletion flag is true.
C5_DeleteKeepsTheRest ==
    \A t \in TermIds :
        (last.op = "delete" /\ last.id = t /\ last.result = "ok") =>
            /\ t \in DOMAIN terminals
            /\ terminals[t] = [last.before EXCEPT !.user = None, !.is_deleted = TRUE]
            /\ last.before.user \notin DOMAIN users
            /\ termProtocols[t] = last.protocols

\* the remaining time-to-live of a key is what its last heartbeat left of it
Remaining(t) == IF t \in DOMAIN cache THEN cache[t].ttl ELSE 0

\* set_alive was the last thing to happen, and it was for this terminal
JustSet(t) == last.op = "set_alive" /\ last.id = t

\* C6: after set_alive(ttl) the terminal is alive at every read before ttl
\* seconds have passed since the last set_alive and not alive from then on,
\* a later set_alive starting the count again; and with no further set_alive
\* an alive terminal is eventually not alive, with no step other than the
\* passing of time.
C6_AliveUntilExpiry ==
    /\ [](\A t \in TermIds :
            /\ is_alive(t) <=> t \in DOMAIN heartbeat
            /\ t \in DOMAIN heartbeat =>
                    Remaining(t) = heartbeat[t].ttl - heartbeat[t].age)
    /\ \A t \in TermIds :
            (is_alive(t) /\ ~JustSet(t)) ~> (~is_alive(t) \/ JustSet(t))

\* a heartbeat renewed before it ran out: a second of the first one had gone
\* and the whole time-to-live is there again
C6_Witness ==
    \E t \in DOMAIN heartbeat :
        /\ JustSet(t) /\ heartbeat[t].age = 0 /\ heartbeat[t].ttl = MaxTtl
        /\ \E u \in DOMAIN heartbeat : u # t /\ heartbeat[u].age > 0 /\ is_alive(u)

\* the (name, port) pairs of a set of protocol pks
Pairs(pks) == {<<r.name, r.port>> : r \in {x \in protocols : x.pk \in pks}}

\* C7: reset_protocols_to_default on a terminal of a type with a mapping
\* leaves the protocol set of the terminal equal to the (name, port) pairs of
\* get_default_protocols_data of the type, one row per pair, whatever the
\* protocol set was before.
C7_ResetGivesDefaults ==
    \A t \in DOMAIN terminals :
        (/\ last.op = "reset_protocols_to_default" /\ last.id = t
         /\ terminals[t].type \in DOMAIN terminal_type_protocols_mapper) =>
            /\ Pairs(termProtocols[t]) =
                 {<<d.name, d.port>> : d \in Range(get_default_protocols_data(terminals[t].type))}
            /\ Cardinality(termProtocols[t]) = Cardinality(Pairs(termProtocols[t]))
            /\ \A pk \in termProtocols[t] : \E r \in protocols : r.pk = pk /\ r.builtin

\* no two rows of the catalog have the same (name, port)
UniquePairs ==
    \A r1, r2 \in protocols : (r1.name = r2.name /\ r1.port = r2.port) => r1 = r2

\* C8: get_or_create_protocols is idempotent on the catalog: called again with
\* the entries of the call before, it leaves the catalog as that call left it,
\* and so does initial_to_db; the catalog never holds two rows with the same
\* (name, port).
C8_SeedingIdempotent ==
    /\ []UniquePairs
    /\ [][\A data \in DataLists :
            (/\ last.op = "get_or_create_protocols" /\ last.data = data
             /\ seed("get_or_create_protocols", data)) => protocols' = protocols]_vars
    /\ [][(last.op = "initial_to_db" /\ initial_to_db) => protocols' = protocols]_vars

\* the same two well-formed entries seeded twice in a row, into a catalog that
\* also holds a row made by hand
C8_Witness ==
    /\ last.op = "get_or_create_protocols" /\ last.again /\ last.result = "ok"
    /\ Len(last.data) = 2 /\ last.data[1] # last.data[2]
    /\ \A i \in 1..2 : wellformed(last.data[i])
    /\ \E r \in protocols : ~r.builtin
    /\ Cardinality(protocols) = 3

\* C9: every process running get_or_create_protocols ends without an error,
\* also when other processes seed the same entries at once and when the
\* (name, port) of an entry is in the catalog already, as a builtin row or
\* not; it returns the row of each well-formed entry, and the catalog has one
\* row per (name, port).
C9_SeedingNeverFails ==
    /\ UniquePairs
    /\ \A p \in Procs :
          /\ seeders[p].pc # "raised"
          /\ seeders[p].pc = "returned" =>
                Pairs(Range(seeders[p].protocols)) =
                    {<<d.name, d.port>> : d \in {e \in Range(seeders[p].data) : wellformed(e)}}

\* the account a terminal is linked to exists and is enabled
AccountEnabled(t) ==
    /\ terminals[t].user # None
    /\ terminals[t].user \in DOMAIN users
    /\ users[terminals[t].user].is_active

\* C10: is_active is true exactly when the terminal has an owning account and
\* the account is enabled. The setter, on a terminal with an account, leaves
\* the account saved with the flag given, so that is_active is that flag; on
\* a terminal without account it changes nothing and is_active stays false.
\* The rows of the terminals, their protocol sets and the liveness keys are
\* as before.
C10_SetActive ==
    /\ [](\A t \in DOMAIN terminals : is_active(t) <=> AccountEnabled(t))
    /\ [][\A t \in TermIds, active \in BOOLEAN :
            set_active(t, active) =>
                /\ IF terminals[t].user # None
                   THEN /\ is_active(t)' = active
                        /\ users'[terminals[t].user].is_active = active
                        /\ \A u \in DOMAIN users :
                              u # terminals[t].user => users'[u] = users[u]
                   ELSE /\ users' = users
                        /\ ~is_active(t)'
                /\ terminals' = terminals
                /\ termProtocols' = termProtocols
                /\ cache' = cache
                /\ is_alive(t)' = is_alive(t)]_vars

\* an accepted, alive terminal with protocols whose account was just disabled
C10_Witness ==
    \E t \in DOMAIN terminals :
        /\ last.op = "set_active" /\ last.id = t /\ ~last.active
        /\ terminals[t].user # None /\ ~is_active(t)
        /\ terminals[t].is_accepted /\ is_alive(t) /\ termProtocols[t] # {}
\* the registry is as it was when alive() was called
RegistryAsAtCall == terminals = scan.terminals /\ users = scan.users

\* every liveness key alive() looked up is as it was at its lookup
CacheAsLookedUp == \A t \in DOMAIN scan.seen : scan.seen[t] = Remaining(t)

\* C11: undeleted() is exactly the terminals whose deletion flag is false,
\* active() exactly the undeleted terminals whose owning account is enabled,
\* alive() exactly the active terminals whose liveness flag is present and
\* unexpired, so alive is within active and active within undeleted in every
\* state. What a call of alive() returns while heartbeats and expiries happen
\* between its lookups is within active() and undeleted(), and is exactly the
\* active terminals whose flag was present and unexpired at their lookup.
C11_ViewsNested ==
    /\ qs_undeleted(objects) = {t \in DOMAIN terminals : ~IsDeleted(t)}
    /\ qs_active(objects) = {t \in qs_undeleted(objects) : AccountEnabled(t)}
    /\ qs_alive(objects) = {t \in qs_active(objects) : Remaining(t) > 0}
    /\ qs_alive(objects) \subseteq qs_active(objects)
    /\ qs_active(objects) \subseteq qs_undeleted(objects)
    /\ (scan.pc = "returned" /\ RegistryAsAtCall) =>
          /\ scan.result \subseteq qs_active(objects)
          /\ scan.result \subseteq qs_undeleted(objects)
          /\ scan.result = {t \in qs_active(objects) : scan.seen[t] > 0}
          /\ (CacheAsLookedUp => scan.result = qs_alive(objects))

\* alive() returned one terminal of two active ones, and a heartbeat or an
\* expiry happened between its lookups
C11_Witness ==
    /\ scan.pc = "returned"
    /\ RegistryAsAtCall
    /\ ~CacheAsLookedUp
    /\ Cardinality(qs_active(objects)) = 2
    /\ Cardinality(scan.result) = 1
    /\ scan.result # qs_alive(objects)

\* the terminal's type has no entry in terminal_type_protocols_mapper
Unmapped(t) == terminals[t].type \notin DOMAIN terminal_type_protocols_mapper

\* C12: reset_protocols_to_default on a terminal whose type has no protocol
\* mapping ends with the error of get_default_protocols_data raised to the
\* caller, and leaves the terminal's protocol set and the protocol catalog as
\* they were; a terminal of a mapped type never gets that error.
C12_UnsupportedTypeSurfaced ==
    [][\A t \in TermIds :
        (t \in DOMAIN terminals /\ reset_protocols_to_default(t)) =>
            /\ (last'.result = "AssertionError") = Unmapped(t)
            /\ Unmapped(t) =>
                  /\ termProtocols' = termProtocols
                  /\ protocols' = protocols
                  /\ nextPk' = nextPk]_vars

\* a reset just failed on a terminal of an unmapped type that has a protocol
C12_Witness ==
    /\ last.op = "reset_protocols_to_default"
    /\ last.result = "AssertionError"
    /\ Unmapped(last.id)
    /\ termProtocols[last.id] # {}
    /\ protocols # {}

\* the last call was get_or_create_protocols with an entry lacking name or port
SeededMalformed ==
    /\ last.op \in {"get_or_create_protocols", "initial_to_db"}
    /\ \E i \in DOMAIN last.data : ~wellformed(last.data[i])

\* C13: a call of get_or_create_protocols with an entry lacking a name or a
\* port raises no error, makes no catalog row for that entry and returns
\* nothing for it, and returns the row of every well-formed entry of the call,
\* before or after the malformed one.
C13_MalformedSkipped ==
    SeededMalformed =>
        /\ last.result = "ok"
        /\ \A r \in protocols : r.name # "" /\ r.port # 0
        /\ Len(last.protocols) =
              Cardinality({i \in DOMAIN last.data : wellformed(last.data[i])})
        /\ Pairs(Range(last.protocols)) =
              {<<d.name, d.port>> : d \in {e \in Range(last.data) : wellformed(e)}}

\* C14: get_command_storage_config gives the configuration of the command
\* storage whose name is the terminal's command_storage when there is one,
\* and settings.DEFAULT_TERMINAL_COMMAND_STORAGE as it is otherwise, with no
\* error; get_replay_storage_config does the same with the replay storages
\* and settings.DEFAULT_TERMINAL_REPLAY_STORAGE.
C14_StorageFallback ==
    (last.op = "get_storage_config") =>
        LET row == terminals[last.id] IN
        /\ last.result = "ok"
        /\ last.command = IF row.command_storage \in DOMAIN storages.command
                          THEN storages.command[row.command_storage]
                          ELSE settings[DEFAULT_TERMINAL_COMMAND_STORAGE]
        /\ last.replay = IF row.replay_storage \in DOMAIN storages.replay
                         THEN storages.replay[row.replay_storage]
                         ELSE settings[DEFAULT_TERMINAL_REPLAY_STORAGE]

\* a terminal read its configurations with a command storage of its name in
\* the registry and no replay storage of its name, other storages existing,
\* the two defaults being different
C14_Witness ==
    /\ last.op = "get_storage_config"
    /\ terminals[last.id].command_storage \in DOMAIN storages.command
    /\ terminals[last.id].replay_storage \notin DOMAIN storages.replay
    /\ storages.replay # <<>>
    /\ settings[DEFAULT_TERMINAL_COMMAND_STORAGE] # settings[DEFAULT_TERMINAL_REPLAY_STORAGE]
    /\ last.command # last.replay

\* C15: in every state, whatever seeding, reset_protocols_to_default and
\* delete calls came before, every protocol of every terminal's protocol set
\* is a row of the protocol catalog.
C15_MembershipInCatalog ==
    \A t \in DOMAIN termProtocols : termProtocols[t] \subseteq {r.pk : r \in protocols}

\* a deleted terminal whose protocol set was reset after the deletion, in a
\* catalog with a row no terminal has
C15_Witness ==
    \E t \in DOMAIN terminals :
        /\ IsDeleted(t)
        /\ last.op = "reset_protocols_to_default"
        /\ termProtocols[t] # {}
        /\ {r.pk : r \in protocols} \ termProtocols[t] # {}

\* the asset is one the backfill is for: its platform has an sftp protocol and
\* it has an ssh protocol
Qualifying(a) ==
    /\ assets[a].platform \in platforms_has_sftp
    /\ \E r \in assetProtocols : r.asset = a /\ r.name = "ssh"

\* C16: when the asset backfill has ended, every asset whose platform has an
\* sftp protocol and which has an ssh protocol has an sftp protocol, for any
\* number of such assets, more than one batch included.
C16_AssetBackfillComplete ==
    (migration.pc = "done") =>
        \A a \in DOMAIN assets :
            Qualifying(a) => \E r \in assetProtocols : r.asset = a /\ r.name = "sftp"

\* the protocols of a platform, and the ones a step adds to them
RowsOf(p) == {r \in platformProtocols : r.platform = p}
Added(p) == {r \in platformProtocols' : r.platform = p} \ RowsOf(p)

\* the platform is one the backfill is for: linux, with an ssh protocol that
\* has sftp enabled, and no sftp protocol
LacksSftp(p) ==
    /\ platforms[p].type = "linux"
    /\ \E r \in RowsOf(p) : r.name = "ssh" /\ r.sftp_enabled
    /\ ~\E r \in RowsOf(p) : r.name = "sftp"

\* C17: a run of the platform backfill removes and changes no protocol, adds
\* exactly one sftp protocol (with the port of one of its sftp-enabled ssh
\* protocols) to every linux platform that has such an ssh protocol and no
\* sftp protocol, adds nothing to any other platform, and a second run adds
\* nothing at all.
C17_PlatformBackfill ==
    [][migrate_platforms_sftp_protocol =>
        /\ platformProtocols \subseteq platformProtocols'
        /\ \A p \in PlatformIds :
              IF LacksSftp(p)
              THEN /\ Cardinality(Added(p)) = 1
                   /\ \A r \in Added(p) :
                         /\ r.name = "sftp"
                         /\ \E q \in RowsOf(p) :
                               q.name = "ssh" /\ q.sftp_enabled /\ q.port = r.port
              ELSE Added(p) = {}
        /\ migration.pc = "platforms" => platformProtocols' = platformProtocols]_vars

\* the backfill has run twice; one platform with two sftp-enabled ssh
\* protocols has the one sftp protocol the first run gave it, another has the
\* sftp protocol it had before
C17_Witness ==
    /\ migration.pc = "platforms_again"
    /\ \E p, q \in PlatformIds :
          /\ Cardinality({r \in RowsOf(p) : r.name = "ssh" /\ r.sftp_enabled}) = 2
          /\ Cardinality({r \in RowsOf(p) : r.name = "sftp"}) = 1
          /\ \A r \in RowsOf(p) : r.name = "sftp" => r.pk > 4 * NumPlatforms
          /\ \E r \in RowsOf(q) : r.name = "sftp" /\ r.pk <= 4 * NumPlatforms

\* C18: Terminal.config holds the settings whose name starts with TERMINAL,
\* then the command storage setting, the replay storage setting, the login
\* title and the two security settings, each overriding what came before: a
\* process-wide TERMINAL_COMMAND_STORAGE or TERMINAL_REPLAY_STORAGE setting
\* gives way to the configuration of the terminal's storage (the default one
\* when there is no storage of that name), TERMINAL_HEADER_TITLE to the login
\* title, and no other setting is in the result.
C18_ConfigMergeOrder ==
    (last.op = "config") =>
        LET row == terminals[last.id]
            c == last.configs
        IN
        /\ DOMAIN c = {k \in DOMAIN settings : k[1] = "TERMINAL"}
                        \cup {TERMINAL_COMMAND_STORAGE, TERMINAL_REPLAY_STORAGE,
                              TERMINAL_HEADER_TITLE, SECURITY_MAX_IDLE_TIME,
                              SECURITY_SESSION_SHARE}
        /\ c[TERMINAL_COMMAND_STORAGE] =
              IF row.command_storage \in DOMAIN storages.command
              THEN storages.command[row.command_storage]
              ELSE settings[DEFAULT_TERMINAL_COMMAND_STORAGE]
        /\ c[TERMINAL_REPLAY_STORAGE] =
              IF row.replay_storage \in DOMAIN storages.replay
              THEN storages.replay[row.replay_storage]
              ELSE settings[DEFAULT_TERMINAL_REPLAY_STORAGE]
        /\ c[TERMINAL_HEADER_TITLE] = get_login_title
        /\ c[SECURITY_MAX_IDLE_TIME] = settings[SECURITY_MAX_IDLE_TIME]
        /\ c[SECURITY_SESSION_SHARE] = settings[SECURITY_SESSION_SHARE]
        /\ c[TERMINAL_PASSWORD_AUTH] = settings[TERMINAL_PASSWORD_AUTH]

\* config was read with process-wide TERMINAL_COMMAND_STORAGE,
\* TERMINAL_REPLAY_STORAGE and TERMINAL_HEADER_TITLE settings in place, a
\* command storage of the terminal's name and no replay storage of its name
C18_Witness ==
    /\ last.op = "config"
    /\ {TERMINAL_COMMAND_STORAGE, TERMINAL_REPLAY_STORAGE, TERMINAL_HEADER_TITLE}
          \subseteq DOMAIN settings
    /\ terminals[last.id].command_storage \in DOMAIN storages.command
    /\ terminals[last.id].replay_storage \notin DOMAIN storages.replay
    /\ last.configs[TERMINAL_COMMAND_STORAGE] # settings[TERMINAL_COMMAND_STORAGE]
    /\ last.configs[TERMINAL_REPLAY_STORAGE] # settings[TERMINAL_REPLAY_STORAGE]
    /\ last.configs[TERMINAL_HEADER_TITLE] # settings[TERMINAL_HEADER_TITLE]

\* C19: a terminal whose deletion flag is true is in no active() and no
\* alive() result and its label is neither Active nor Offline, whatever its
\* liveness key holds; no instance that alive() returns has the deletion flag
\* true.
C19_DeletedNeverListed ==
    /\ \A t \in DOMAIN terminals :
          IsDeleted(t) =>
              /\ t \notin qs_active(objects)
              /\ t \notin qs_alive(objects)
              /\ str(t) \notin {"Active", "Offline"}
    /\ \A t \in DOMAIN scan.rows : ~scan.rows[t].is_deleted

\* a terminal is listed by active() and the terminals that are deleted or
\* have a disabled account are not
InActiveView(t) == t \in qs_active(objects)

\* C20: in every state a terminal is in the result of active() exactly when
\* its is_active is true.
C20_ActiveAgrees ==
    \A t \in DOMAIN terminals : InActiveView(t) <=> is_active(t)

\* a terminal deleted together with its account beside one that is active
C20_Witness ==
    \E t, u \in DOMAIN terminals :
        /\ IsDeleted(t) /\ registered[t] # None
        /\ ~InActiveView(t)
        /\ InActiveView(u)

====
